---- MODULE Spec2Model ----
(***************************************************************************)
(* Villa Olympics: the scoreboard state, the ranking, the progress         *)
(* animation and the roster loading of the two renderer backends,          *)
(*   src/VillaOlympicsPygame/main.py  (pygame window, tick loop)           *)
(*   src/VillaOlympicsWebApp/app.py   (streamlit page, session state)      *)
(*                                                                         *)
(* Strings are sequences of one-character strings, so that str.strip,      *)
(* str.lower, float() and the string comparison of the sorts are computed. *)
(* Scores are integer-valued floats (exact in a double).  Progress values  *)
(* are binary floating-point numbers rounded to nearest-even after every   *)
(* operation, as Python floats are; the significand is narrowed from 53 to *)
(* PRECISION bits and the value is held as an integer count of the         *)
(* smallest spacing, 1.0 being One.                                        *)
(***************************************************************************)
EXTENDS Integers, Sequences, FiniteSets, TLC

VARIABLES
    backend,        \* "pygame" | "web": which program runs
    pc,             \* pygame: position in App.__init__ / App.run; web: "init" | "page"
    running,        \* App.running
    players,        \* Scoreboard.players: sequence of Player objects
    inc_buttons,    \* App.inc_buttons: (player object, delta) per click target
    loads,          \* number of completed loads: the identity of the Player objects of a load
    st_players,     \* st.session_state["players"]: rows of the DataFrame
    display_order,  \* st.session_state["display_order"] (Unset while the key is absent)
    live_sort,      \* st.session_state["live_sort"]
    frozen_for,     \* sort_frozen_until - time.time(), in tenths of a second, 0 when passed
    lb,             \* the ranking last computed from the roster as it is now (rows
                    \* name, points, at); NoRank when the roster changed since
    last_op         \* the operation taken last, with its outcome

vars == <<backend, pc, running, players, inc_buttons, loads,
          st_players, display_order, live_sort, frozen_for, lb, last_op>>


----------------------------------------------------------------------------
(* Bounds of the model *)

PRECISION == 4          \* significand bits of a progress value (a double has 53)
EXPONENT_RANGE == 7     \* binades below 1.0 before gradual underflow
MaxDrift == 1           \* a bump keeps a score within MaxDrift of a loaded score
MaxPlayers == 16         \* players in the rosters of the layout runs
MaxLoads == 2           \* loads of the pygame roster in one run

(* Program constants *)

FINISH_LINE == 100      \* app.py: points needed to finish
max_pts == 100          \* main.py: set_target_progresses' local finish line
EASING_SPEED == 6       \* main.py: EASING_SPEED = 6.0
SORT_FREEZE == 8        \* app.py: time.time() + 0.8, in tenths of a second
MS_PER_SECOND == 1000
WINDOW_H == 700
TOP_MARGIN == 90
min_lane_h == 40
max_lane_h == 90
min_gap == 6
max_gap == 18
min_row_h == 40
max_row_h == 76
spacing == 8
MIN_LANE_H == 54
MAX_LANE_H == 90   \* main.py: clock.tick(FPS) / 1000.0

----------------------------------------------------------------------------
(* Strings *)

Space == " "
Digits == <<"0", "1", "2", "3", "4", "5", "6", "7", "8", "9">>

\* ord(c) of the characters the rosters use
Ord(c) ==
    CASE c = " " -> 32 [] c = "-" -> 45
      [] c = "A" -> 65 [] c = "B" -> 66 [] c = "C" -> 67
      [] c = "a" -> 97 [] c = "b" -> 98 [] c = "c" -> 99
      [] OTHER -> 48 + (CHOOSE d \in 0..9 : Digits[d + 1] = c)

\* str.lower() of one character
LowerChar(c) ==
    CASE c = "A" -> "a" [] c = "B" -> "b" [] c = "C" -> "c" [] OTHER -> c

lower(s) == [i \in 1..Len(s) |-> LowerChar(s[i])]

\* str.strip(): leading and trailing whitespace removed
strip(s) ==
    LET ink == {i \in 1..Len(s) : s[i] # Space}
    IN  IF ink = {} THEN <<>>
        ELSE LET first == CHOOSE i \in ink : \A j \in ink : i <= j
                 last  == CHOOSE i \in ink : \A j \in ink : j <= i
             IN  SubSeq(s, first, last)

\* s < t of two Python strings: lexicographic by code point
StrLess(s, t) ==
    \E k \in 1..(Len(t)) :
        /\ \A i \in 1..(k - 1) : i <= Len(s) /\ s[i] = t[i]
        /\ \/ k = Len(s) + 1
           \/ k <= Len(s) /\ Ord(s[k]) < Ord(t[k])

IsDigit(c) == \E d \in 1..10 : Digits[d] = c

RECURSIVE DigitsValue(_)
DigitsValue(s) ==
    IF s = <<>> THEN 0
    ELSE 10 * DigitsValue(SubSeq(s, 1, Len(s) - 1)) + (Ord(s[Len(s)]) - 48)

\* the texts float() and pd.to_numeric accept, of those the rosters use:
\* an optional sign and one or more digits
IsNumber(s) ==
    LET body == IF s # <<>> /\ s[1] = "-" THEN Tail(s) ELSE s
    IN  body # <<>> /\ \A i \in 1..Len(body) : IsDigit(body[i])

NumberValue(s) ==
    IF s[1] = "-" THEN 0 - DigitsValue(Tail(s)) ELSE DigitsValue(s)

----------------------------------------------------------------------------
(* Floating point *)

RECURSIVE Pow2(_)
Pow2(n) == IF n = 0 THEN 1 ELSE 2 * Pow2(n - 1)

\* 1.0
One == Pow2(PRECISION - 1 + EXPONENT_RANGE)

Abs(x) == IF x < 0 THEN 0 - x ELSE x
Min(a, b) == IF a <= b THEN a ELSE b
Max(a, b) == IF a >= b THEN a ELSE b

\* the spacing of the floating-point numbers around num/den >= 0
RECURSIVE SpacingFrom(_, _, _)
SpacingFrom(num, den, s) ==
    IF num < den * Pow2(PRECISION) * s THEN s ELSE SpacingFrom(num, den, 2 * s)

Ulp(x) == SpacingFrom(Abs(x), 1, 1)

\* num/den >= 0 rounded to the nearest floating-point number, ties to even
RoundNearestEven(num, den) ==
    LET s == SpacingFrom(num, den, 1)
        q == num \div (den * s)
        r == num % (den * s)
    IN  IF 2 * r > den * s \/ (2 * r = den * s /\ q % 2 = 1)
        THEN (q + 1) * s
        ELSE q * s

\* the float nearest to num/den, den > 0
Fl(num, den) ==
    IF num < 0 THEN 0 - RoundNearestEven(0 - num, den)
    ELSE RoundNearestEven(num, den)

----------------------------------------------------------------------------
(* The roster source: players.csv as csv.DictReader / pd.read_csv see it *)

\* a cell the row does not have (DictReader's restval None, pandas' NaN)
None == <<"None">>

Row(name, points) == [name |-> name, points |-> points]

NoFile == [exists |-> FALSE, rows |-> <<>>]
File(rows) == [exists |-> TRUE, rows |-> rows]

\* the contents players.csv takes in the model
CSV_FILES ==
    { NoFile,
      File(<<>>),
      File(<<Row(<<>>, <<>>), Row(<<"A">>, <<"a", "b", "c">>)>>),
      File(<<Row(<<"a">>, <<"4", "0">>), Row(<<"B">>, <<"4", "0">>)>>),
      File(<<Row(<<" ", "A">>, <<"1", "0", "0">>), Row(<<"A">>, <<"1", "0", "0">>)>>),
      File(<<Row(<<" ">>, <<"-", "9">>), Row(<<"C">>, <<"1", "1", "0">>)>>),
      File(<<Row(<<"B">>, None)>>) }

\* the names bump_points is called with
BUMP_NAMES == {<<"A">>, <<"A", " ">>, <<"B">>, <<"a">>, <<"C">>, <<>>}

\* the milliseconds clock.tick(FPS) returns: no time, or a stall of a second
DT_MS == {0, 1000}

\* the frame times of the animation runs: a frame at 60 Hz, a slow frame, a stall
ANIM_DT_MS == {0, 17, 83, 1000}

\* the rosters of the animation runs: one racer at the start line, one on
\* the track, one past the finish
ANIM_FILES ==
    { NoFile,
      File(<<Row(<<>>, <<>>), Row(<<"A">>, <<"a", "b", "c">>)>>),
      File(<<Row(<<"B">>, <<"6">>)>>),
      File(<<Row(<<" ">>, <<"-", "9">>), Row(<<"C">>, <<"1", "1", "0">>)>>) }

\* the tenths of a second that pass between two runs of the page
ELAPSED == {3, 8}

\* float(pts_str) / pd.to_numeric(errors="coerce").fillna(0): 0 when the text is no number
parse_points(text) ==
    IF IsNumber(strip(text)) THEN NumberValue(strip(text)) ELSE 0

\* the scores a load can produce
LoadedScores ==
    UNION {{parse_points(f.rows[i].points) : i \in 1..Len(f.rows)} : f \in CSV_FILES \cup ANIM_FILES}

\* the bound on the scores: a bump is taken while the score stays near a loaded one
InWindow(score) == \E a \in LoadedScores : Abs(score - a) <= MaxDrift

----------------------------------------------------------------------------
(* src/VillaOlympicsPygame/main.py *)

\* Player.__init__; oid tells the objects of one load from those of another
Player(name, points, oid) ==
    [name |-> name, points |-> points, progress_target |-> 0,
     progress_current |-> 0, oid |-> oid]

\* a row of fewer cells than the header: row.get("points", "0") is None and
\* None.strip() raises AttributeError, which nothing catches
row_raises(row) == row.points = None

load_raises(file) ==
    file.exists /\ \E i \in 1..Len(file.rows) : row_raises(file.rows[i])

\* the rows load_from_csv keeps: those whose stripped name is not empty
kept_rows(rows) == SelectSeq(rows, LAMBDA row : strip(row.name) # <<>>)

\* Scoreboard.load_from_csv: the value of self.players when it returns
load_from_csv(current, file, oid) ==
    IF ~file.exists THEN current
    ELSE LET kept == kept_rows(file.rows)
         IN  [i \in 1..Len(kept) |->
                 Player(strip(kept[i].name), parse_points(kept[i].points), oid)]

\* 0.0 if max_pts <= 0 else (p.points / max_pts), for a finish line of m
target_progress_with(points, m) ==
    IF m <= 0 THEN 0 ELSE Fl(points * One, m)

\* p.points / max_pts
target_progress(points) == target_progress_with(points, max_pts)

\* Scoreboard.set_target_progresses, for a finish line of m
set_target_progresses_with(ps, m) ==
    [i \in 1..Len(ps) |->
        [ps[i] EXCEPT !.progress_target = target_progress_with(ps[i].points, m)]]

\* Scoreboard.set_target_progresses
set_target_progresses(ps) == set_target_progresses_with(ps, max_pts)

\* dt = clock.tick(FPS) / 1000.0
seconds(ms) == Fl(ms * One, MS_PER_SECOND)

\* EASING_SPEED * dt without the min(1.0, ...)
easing_factor_unbounded(dt) == Fl(EASING_SPEED * dt, 1)

\* min(1.0, EASING_SPEED * dt)
easing_factor(dt) == Min(One, Fl(EASING_SPEED * dt, 1))

\* progress_current after  += (progress_target - progress_current) * factor
eased(current, target, factor) ==
    Fl(current + Fl(Fl(target - current, 1) * factor, One), 1)

\* update_animation with  for p in self.players[:-1]  as its loop
update_animation_skipping_last(ps, dt) ==
    [i \in 1..Len(ps) |->
        IF i = Len(ps) THEN ps[i]
        ELSE [ps[i] EXCEPT !.progress_current =
                 eased(ps[i].progress_current, ps[i].progress_target, easing_factor(dt))]]

\* Scoreboard.update_animation
update_animation(ps, dt) ==
    [i \in 1..Len(ps) |->
        [ps[i] EXCEPT !.progress_current =
            eased(ps[i].progress_current, ps[i].progress_target, easing_factor(dt))]]

\* the sort key (-p.points, p.name.lower()) of two players compared
key_less(p, q) ==
    \/ p.points > q.points
    \/ p.points = q.points /\ StrLess(lower(p.name), lower(q.name))

\* sorted(...): the positions 1..n in sorted order, where before[i][j] says
\* that the key at position i is less than the key at position j; equal keys
\* keep their order
StableSort(n, before) ==
    [k \in 1..n |->
        CHOOSE i \in 1..n :
            Cardinality({j \in 1..n :
                \/ before[j][i]
                \/ ~before[i][j] /\ j < i}) = k - 1]

\* Scoreboard.sort_for_leaderboard: the Player objects (positions in
\* self.players) in leaderboard order
sort_for_leaderboard(ps) ==
    StableSort(Len(ps), [i \in 1..Len(ps) |->
                            [j \in 1..Len(ps) |-> key_less(ps[i], ps[j])]])

\* the roster as the ranking reads it
RosterOf(ps) == [i \in 1..Len(ps) |-> [name |-> ps[i].name, points |-> ps[i].points]]

\* a row of a ranking: the player at position at of the roster
Shown(ps, at) == [name |-> ps[at].name, points |-> ps[at].points, at |-> at]

\* App.draw_leaderboard's click targets: a minus and a plus per row
buttons_of(ps, order) ==
    [b \in 1..(2 * Len(order)) |->
        [player |-> order[(b + 1) \div 2],
         oid |-> ps[order[(b + 1) \div 2]].oid,
         delta |-> IF b % 2 = 1 THEN 0 - 1 ELSE 1]]

\* the values of lb: no ranking of this roster yet, a ranking that raised,
\* the rows of a ranking
NoRank == [state |-> "none", rows |-> <<>>]
Failed == [state |-> "raised", rows |-> <<>>]
Ranked(rows) == [state |-> "ranked", rows |-> rows]

\* the values of display_order: the key is absent, or holds a list of names
Unset == [set |-> FALSE, names |-> <<>>]
Order(names) == [set |-> TRUE, names |-> names]

\* how a load of the file ends
load_outcome(file) ==
    IF ~file.exists THEN "missing" ELSE IF load_raises(file) THEN "raised" ELSE "read"

\* read_players returns a frame for every file
read_outcome(file) == IF file.exists THEN "read" ELSE "missing"

\* lb after a step that took the roster from before to after
kept_ranking(before, after) == IF after = before THEN lb ELSE NoRank

\* the button's player is an object of the roster
IsLive(button, ps) ==
    button.player <= Len(ps) /\ ps[button.player].oid = button.oid

\* App.__init__ of the program whose finish line max_pts is m
AppInitWith(file, m) ==
    /\ backend = "pygame" /\ pc = "init"
    /\ IF load_raises(file)
       THEN /\ pc' = "crashed"
            /\ UNCHANGED <<players, loads>>
       ELSE /\ players' =
                  set_target_progresses_with(load_from_csv(players, file, loads + 1), m)
            /\ loads' = IF file.exists THEN loads + 1 ELSE loads
            /\ pc' = "events"
    /\ last_op' = [op |-> "AppInit", outcome |-> load_outcome(file)]
    /\ UNCHANGED <<backend, running, inc_buttons, st_players, display_order,
                   live_sort, frozen_for>>
    /\ lb' = kept_ranking(RosterOf(players), RosterOf(players'))

\* App.__init__
AppInit(file) == AppInitWith(file, max_pts)

\* handle_events: K_r
EventReload(file) ==
    /\ backend = "pygame" /\ pc = "events"
    /\ file.exists => loads < MaxLoads
    /\ IF load_raises(file)
       THEN /\ pc' = "crashed"
            /\ UNCHANGED <<players, loads>>
       ELSE /\ players' = set_target_progresses(load_from_csv(players, file, loads + 1))
            /\ loads' = IF file.exists THEN loads + 1 ELSE loads
            /\ pc' = pc
    /\ last_op' = [op |-> "EventReload", outcome |-> load_outcome(file)]
    /\ UNCHANGED <<backend, running, inc_buttons, st_players, display_order,
                   live_sort, frozen_for>>
    /\ lb' = kept_ranking(RosterOf(players), RosterOf(players'))

\* reset_animation that leaves a player that has arrived at its target
reset_animation_unless_arrived(ps) ==
    [i \in 1..Len(ps) |->
        IF ps[i].progress_current = ps[i].progress_target THEN ps[i]
        ELSE [ps[i] EXCEPT !.progress_current = 0]]

\* App.reset_animation
reset_animation(ps) ==
    [i \in 1..Len(ps) |-> [ps[i] EXCEPT !.progress_current = 0]]

\* handle_events: K_SPACE
EventSpace ==
    /\ backend = "pygame" /\ pc = "events"
    /\ players' = reset_animation(players)
    /\ last_op' = [op |-> "EventSpace",
                   moved |-> \E i \in 1..Len(players) : players[i].progress_current # 0]
    /\ UNCHANGED <<backend, pc, running, inc_buttons, loads, st_players,
                   display_order, live_sort, frozen_for, lb>>

\* player.points += delta on the button's Player object
clicked(ps, button) ==
    IF IsLive(button, ps)
    THEN [ps EXCEPT ![button.player].points = @ + button.delta]
    ELSE ps

\* the click without its call of self.sb.set_target_progresses()
EventClickKeepingTargets(b) ==
    /\ backend = "pygame" /\ pc = "events"
    /\ b \in 1..Len(inc_buttons)
    /\ IsLive(inc_buttons[b], players) =>
           InWindow(players[inc_buttons[b].player].points + inc_buttons[b].delta)
    /\ players' = clicked(players, inc_buttons[b])
    /\ last_op' = [op |-> "EventClick", live |-> IsLive(inc_buttons[b], players)]
    /\ UNCHANGED <<backend, pc, running, inc_buttons, loads, st_players,
                   display_order, live_sort, frozen_for>>
    /\ lb' = kept_ranking(RosterOf(players), RosterOf(players'))

\* handle_events: MOUSEBUTTONDOWN on click target b (the rects do not overlap)
EventClick(b) ==
    /\ backend = "pygame" /\ pc = "events"
    /\ b \in 1..Len(inc_buttons)
    /\ IsLive(inc_buttons[b], players) =>
           InWindow(players[inc_buttons[b].player].points + inc_buttons[b].delta)
    /\ players' = set_target_progresses(clicked(players, inc_buttons[b]))
    /\ last_op' = [op |-> "EventClick", live |-> IsLive(inc_buttons[b], players)]
    /\ UNCHANGED <<backend, pc, running, inc_buttons, loads, st_players,
                   display_order, live_sort, frozen_for>>
    /\ lb' = kept_ranking(RosterOf(players), RosterOf(players'))

\* run: handle_events has taken the last event of the batch and
\* keys[K_ESCAPE] is read; quit tells whether the batch held a pygame.QUIT
\* (which only sets self.running, at whatever place of the batch it came)
\* or Escape is down
EventsDone(quit) ==
    /\ backend = "pygame" /\ pc = "events"
    /\ running' = ~quit
    /\ pc' = "update"
    /\ last_op' = [op |-> "EventsDone"]
    /\ UNCHANGED <<backend, players, inc_buttons, loads, st_players,
                   display_order, live_sort, frozen_for, lb>>

\* App.update(dt), dt the time clock.tick returned for this iteration
Update(ms) ==
    /\ backend = "pygame" /\ pc = "update"
    /\ players' = update_animation(players, seconds(ms))
    /\ pc' = "draw"
    /\ last_op' = [op |-> "Update", ms |-> ms]
    /\ UNCHANGED <<backend, running, inc_buttons, loads, st_players,
                   display_order, live_sort, frozen_for, lb>>

\* draw_race: available_height = WINDOW_H - TOP_MARGIN - 40
race_available_height == WINDOW_H - TOP_MARGIN - 40

\* draw_leaderboard: available_height = WINDOW_H - 100
rows_available_height == WINDOW_H - 100

\* draw_race's lane_h without the max(min_lane_h, ...) and gap without the
\* max(min_gap, ...)
lane_geometry_without_minimum(n) ==
    IF n > 0
    THEN LET lane_h == Min(max_lane_h, (race_available_height - (n - 1) * min_gap) \div n)
         IN  [lane_h |-> lane_h,
              gap |-> Min(max_gap, (race_available_height - n * lane_h) \div Max(1, n - 1))]
    ELSE [lane_h |-> max_lane_h, gap |-> max_gap]

\* draw_race's lane_h rounded up instead of down
lane_geometry_rounding_up(n) ==
    IF n > 0
    THEN LET lane_h == Min(max_lane_h, Max(min_lane_h,
                          (race_available_height - (n - 1) * min_gap + n - 1) \div n))
         IN  [lane_h |-> lane_h,
              gap |-> Min(max_gap, Max(min_gap,
                          (race_available_height - n * lane_h) \div Max(1, n - 1)))]
    ELSE [lane_h |-> max_lane_h, gap |-> max_gap]

\* draw_race: lane_h and gap for n players (// is floor division)
lane_geometry(n) ==
    IF n > 0
    THEN LET lane_h == Min(max_lane_h, Max(min_lane_h,
                          (race_available_height - (n - 1) * min_gap) \div n))
         IN  [lane_h |-> lane_h,
              gap |-> Min(max_gap, Max(min_gap,
                          (race_available_height - n * lane_h) \div Max(1, n - 1)))]
    ELSE [lane_h |-> max_lane_h, gap |-> max_gap]

\* draw_leaderboard: row_h for n players
row_geometry(n) ==
    IF n > 0
    THEN Min(max_row_h, Max(min_row_h, (rows_available_height - (n - 1) * spacing) \div n))
    ELSE max_row_h

\* what a frame has drawn: the geometry of the lanes and of the rows
Drawn(n) ==
    [op |-> "Draw", lane_h |-> lane_geometry(n).lane_h, gap |-> lane_geometry(n).gap,
     row_h |-> row_geometry(n)]

\* draw_leaderboard with self.players.sort(key=...) in the place of sorted(...)
DrawSortingInPlace ==
    /\ backend = "pygame" /\ pc = "draw"
    /\ LET order == sort_for_leaderboard(players)
           ranked == [k \in 1..Len(order) |-> players[order[k]]]
       IN  /\ players' = ranked
           /\ inc_buttons' =
                  buttons_of(ranked, [k \in 1..Len(ranked) |-> k])
           /\ lb' = Ranked([k \in 1..Len(order) |-> Shown(players, order[k])])
    /\ pc' = IF running THEN "events" ELSE "exited"
    /\ last_op' = Drawn(Len(players))
    /\ UNCHANGED <<backend, running, loads, st_players, display_order,
                   live_sort, frozen_for>>

\* App.draw: draw_race, then draw_leaderboard
Draw ==
    /\ backend = "pygame" /\ pc = "draw"
    /\ LET order == sort_for_leaderboard(players)
       IN  /\ inc_buttons' = buttons_of(players, order)
           /\ lb' = Ranked([k \in 1..Len(order) |-> Shown(players, order[k])])
    /\ players' = players
    /\ pc' = IF running THEN "events" ELSE "exited"
    /\ last_op' = Drawn(Len(players))
    /\ UNCHANGED <<backend, running, loads, st_players, display_order,
                   live_sort, frozen_for>>

PygameNext ==
    \/ \E file \in CSV_FILES : AppInit(file)
    \/ \E file \in CSV_FILES : EventReload(file)
    \/ EventSpace
    \/ \E b \in 1..Len(inc_buttons) : EventClick(b)
    \/ \E quit \in BOOLEAN : EventsDone(quit)
    \/ \E ms \in DT_MS : Update(ms)
    \/ Draw

----------------------------------------------------------------------------
(* src/VillaOlympicsWebApp/app.py *)

\* the deltas of the page's two buttons
DELTAS == {0 - 1, 1}

\* read_players: every row is kept; a missing name is "", points are coerced
read_players(file) ==
    IF ~file.exists THEN <<>>
    ELSE [i \in 1..Len(file.rows) |->
            [name |-> IF file.rows[i].name = None THEN <<>> ELSE file.rows[i].name,
             points |-> parse_points(file.rows[i].points)]]

\* pts / finish, finish # 0, rounded to the nearest float
Quotient(pts, finish) ==
    IF finish < 0 THEN Fl(0 - pts * One, 0 - finish) ELSE Fl(pts * One, finish)

\* max(0.0, min(1.0, pts / FINISH_LINE)) of race_track, for a FINISH_LINE # 0
race_progress_with(pts, finish) == Max(0, Min(One, Quotient(pts, finish)))

\* max(0.0, min(1.0, pts / FINISH_LINE)) of race_track
race_progress(pts) == race_progress_with(pts, FINISH_LINE)

\* race_track's lane_h
web_lane_h(lanes) ==
    IF lanes <= 6 THEN MAX_LANE_H
    ELSE Max(MIN_LANE_H, MAX_LANE_H - (lanes - 6) * 4)

\* race_track(st.session_state["players"]) of the program whose FINISH_LINE
\* is finish: renders the lanes, writes no state; pts / FINISH_LINE of the
\* first row raises ZeroDivisionError when FINISH_LINE is 0
race_track_with(finish) ==
    /\ backend = "web" /\ pc = "page"
    /\ LET raised == finish = 0 /\ st_players # <<>>
       IN  last_op' =
              [op |-> "race_track", lane_h |-> web_lane_h(Len(st_players)),
               finish_line |-> finish, raised |-> raised,
               progress |-> IF raised \/ finish = 0 THEN <<>>
                            ELSE [i \in 1..Len(st_players) |->
                                     race_progress_with(st_players[i].points, finish)]]
    /\ UNCHANGED <<backend, pc, running, players, inc_buttons, loads, st_players,
                   display_order, live_sort, frozen_for, lb>>

\* race_track(st.session_state["players"])
race_track == race_track_with(FINISH_LINE)

\* mask = df["name"].astype(str).str.strip() == str(player_name).strip()
mask(df, player_name) ==
    {i \in 1..Len(df) : strip(df[i].name) = strip(player_name)}

\* (pts + delta).clip(lower=0)
clipped(pts) == Max(0, pts)

\* bump_points without its  if not mask.any(): return
bump_returns_on_empty_only(df, player_name) == df = <<>>

\* bump_points returns before it writes: no rows, or no name matches
bump_returns_early(df, player_name) ==
    df = <<>> \/ mask(df, player_name) = {}

\* bump_points
bump_points(player_name, delta) ==
    LET m == mask(st_players, player_name)
        early == bump_returns_early(st_players, player_name)
    IN  /\ backend = "web" /\ pc = "page"
        /\ \A i \in m : InWindow(clipped(st_players[i].points + delta))
        /\ IF early
           THEN UNCHANGED <<st_players, frozen_for>>
           ELSE /\ st_players' =
                      [i \in 1..Len(st_players) |->
                          IF i \in m
                          THEN [st_players[i] EXCEPT !.points = clipped(@ + delta)]
                          ELSE st_players[i]]
                /\ frozen_for' = SORT_FREEZE
        /\ last_op' = [op |-> "bump_points", early |-> early]
        /\ UNCHANGED <<backend, pc, running, players, inc_buttons, loads,
                       display_order, live_sort>>
        /\ lb' = kept_ranking(st_players, st_players')

\* get_leaderboard_df's copy: the names stripped; at is the row's place in the roster
stripped_copy(df) ==
    [i \in 1..Len(df) |->
        [name |-> strip(df[i].name), points |-> df[i].points, at |-> i]]

NamesOf(df) == [i \in 1..Len(df) |-> df[i].name]

stripped_names(df) == [i \in 1..Len(df) |-> strip(df[i].name)]

\* sort_values(["points", "name"], ascending=[False, True]): the names are
\* compared as Python strings, capitals before small letters
web_less(r, q) ==
    \/ r.points > q.points
    \/ r.points = q.points /\ StrLess(r.name, q.name)

sort_values(df) ==
    LET order == StableSort(Len(df), [i \in 1..Len(df) |->
                                        [j \in 1..Len(df) |-> web_less(df[i], df[j])]])
    IN  [k \in 1..Len(df) |-> df[order[k]]]

HasDuplicates(seq) == \E i, j \in 1..Len(seq) : i < j /\ seq[i] = seq[j]

\* [n for n in display_order if n in df["name"].values]
known_names(order, df) ==
    SelectSeq(order, LAMBDA n : \E i \in 1..Len(df) : df[i].name = n)

\* df.set_index("name").reindex(target).reset_index(): the frame itself when
\* target is its index, ValueError when the index has duplicate labels,
\* else the row of each label of target
reindex(df, target) ==
    IF NamesOf(df) = target THEN Ranked(df)
    ELSE IF HasDuplicates(NamesOf(df)) THEN Failed
    ELSE Ranked([k \in 1..Len(target) |->
                    df[CHOOSE i \in 1..Len(df) : df[i].name = target[k]]])

\* get_leaderboard_df: the frame returned and display_order afterwards
leaderboard(df0, order0, live, frozen) ==
    LET df == stripped_copy(df0)
        order == IF order0.set THEN order0.names ELSE NamesOf(df)
    IN  IF live
        THEN IF frozen /\ order # <<>>
             THEN [df |-> reindex(df, known_names(order, df)), order |-> order0]
             ELSE [df |-> Ranked(sort_values(df)),
                   order |-> Order(NamesOf(sort_values(df)))]
        ELSE LET fixed == IF order = <<>> THEN NamesOf(df) ELSE order
             IN  [df |-> reindex(df, known_names(fixed, df)), order |-> order0]

\* the page is rendered: lb = get_leaderboard_df()
get_leaderboard_df ==
    /\ backend = "web" /\ pc = "page"
    /\ LET out == leaderboard(st_players, display_order, live_sort, frozen_for > 0)
       IN  /\ lb' = out.df
           /\ display_order' = out.order
    /\ st_players' = st_players
    /\ last_op' = [op |-> "get_leaderboard_df"]
    /\ UNCHANGED <<backend, pc, running, players, inc_buttons, loads,
                   live_sort, frozen_for>>

\* the first run of the script: "players" is not in the session state
WebInit(file) ==
    /\ backend = "web" /\ pc = "init"
    /\ st_players' = read_players(file)
    /\ pc' = "page"
    /\ last_op' = [op |-> "WebInit", outcome |-> read_outcome(file)]
    /\ UNCHANGED <<backend, running, players, inc_buttons, loads,
                   display_order, live_sort, frozen_for>>
    /\ lb' = kept_ranking(st_players, st_players')

\* the sidebar's Load CSV button
LoadCSV(file) ==
    /\ backend = "web" /\ pc = "page"
    /\ st_players' = read_players(file)
    /\ last_op' = [op |-> "LoadCSV", outcome |-> read_outcome(file)]
    /\ UNCHANGED <<backend, pc, running, players, inc_buttons, loads,
                   display_order, live_sort, frozen_for>>
    /\ lb' = kept_ranking(st_players, st_players')

\* the "Live resort by points" toggle
ToggleLiveSort ==
    /\ backend = "web" /\ pc = "page"
    /\ live_sort' = ~live_sort
    /\ last_op' = [op |-> "ToggleLiveSort"]
    /\ UNCHANGED <<backend, pc, running, players, inc_buttons, loads,
                   st_players, display_order, frozen_for, lb>>

\* time.time() advances while a freeze is pending
TimePasses(tenths) ==
    /\ backend = "web" /\ pc = "page"
    /\ frozen_for > 0
    /\ frozen_for' = Max(0, frozen_for - tenths)
    /\ last_op' = [op |-> "TimePasses"]
    /\ UNCHANGED <<backend, pc, running, players, inc_buttons, loads,
                   st_players, display_order, live_sort, lb>>

WebNext ==
    \/ \E file \in CSV_FILES : WebInit(file)
    \/ \E file \in CSV_FILES : LoadCSV(file)
    \/ ToggleLiveSort
    \/ \E tenths \in ELAPSED : TimePasses(tenths)
    \/ \E name \in BUMP_NAMES, delta \in DELTAS : bump_points(name, delta)
    \/ get_leaderboard_df
    \/ race_track

----------------------------------------------------------------------------

Init ==
    /\ backend \in {"pygame", "web"}
    /\ pc = "init"
    /\ running = TRUE
    /\ players = <<>>
    /\ inc_buttons = <<>>
    /\ loads = 0
    /\ st_players = <<>>
    /\ display_order = Unset
    /\ live_sort = TRUE
    /\ frozen_for = 0
    /\ lb = NoRank
    /\ last_op = [op |-> "start"]

Next == PygameNext \/ WebNext

Spec == Init /\ [][Next]_vars

----------------------------------------------------------------------------
(* The pygame program alone, at frame times that ease part of the way *)

AnimInit == Init /\ backend = "pygame"

AnimNext ==
    \/ \E file \in ANIM_FILES : AppInit(file)
    \/ \E file \in ANIM_FILES : EventReload(file)
    \/ EventSpace
    \/ \E b \in 1..Len(inc_buttons) : EventClick(b)
    \/ \E quit \in BOOLEAN : EventsDone(quit)
    \/ \E ms \in ANIM_DT_MS : Update(ms)
    \/ Draw

SpecAnim == AnimInit /\ [][AnimNext]_vars

----------------------------------------------------------------------------
(* The claims *)

\* a step that bumps a score: a click on a +/- target, or bump_points
IsBump ==
    \/ \E b \in 1..Len(inc_buttons) : EventClick(b)
    \/ \E name \in BUMP_NAMES, delta \in DELTAS : bump_points(name, delta)

\* a step that computes the ranking
IsRank ==
    /\ last_op'.op \in {"Draw", "get_leaderboard_df"}
    /\ Draw \/ get_leaderboard_df

\* a step that loads the roster from the file
IsLoad(file) ==
    AppInit(file) \/ EventReload(file) \/ WebInit(file) \/ LoadCSV(file)

\* the roster of the program that runs
Roster == IF backend = "pygame" THEN RosterOf(players) ELSE st_players

ScoresNonNegative == \A i \in 1..Len(Roster) : Roster[i].points >= 0

\* C1: a bump of +1 or -1, from whichever input surface, takes a roster whose
\* scores are all >= 0 to a roster whose scores are all >= 0 (a decrement
\* stops at 0).
C1_BumpKeepsScoresNonNegative ==
    [][(IsBump /\ ScoresNonNegative) => ScoresNonNegative']_vars

\* C2: once a load or a bump has completed, every player's progress_target
\* is clamp(score / FINISH_LINE, 0, 1): 1.0 for a score above 100, 0 for a
\* negative one.
C2_TargetIsClampedProgress ==
    \A i \in 1..Len(players) :
        players[i].progress_target = race_progress(players[i].points)

\* C3: in every reachable state every player's progress_current lies in [0, 1].
C3_DisplayedInUnitInterval ==
    \A i \in 1..Len(players) :
        players[i].progress_current >= 0 /\ players[i].progress_current <= One

\* rows in leaderboard order: score descending, equal scores by name
\* ascending, compared case-insensitively
RankedOrder(rows) ==
    \A k \in 1..(Len(rows) - 1) :
        \/ rows[k].points > rows[k + 1].points
        \/ /\ rows[k].points = rows[k + 1].points
           /\ ~StrLess(lower(rows[k + 1].name), lower(rows[k].name))


\* C4: the ranking of every roster is ordered by score descending, equal
\* scores by name ascending compared case-insensitively, in both backends.
C4_RankIsOrdered ==
    [][IsRank => (lb'.state = "ranked" /\ RankedOrder(lb'.rows))]_vars

\* rows that compare equal on (score, lower-cased name) are in roster order
TiesInRosterOrder(rows) ==
    \A k, m \in 1..Len(rows) :
        (/\ k < m
         /\ rows[k].points = rows[m].points
         /\ lower(rows[k].name) = lower(rows[m].name)) => rows[k].at < rows[m].at

\* C5: a ranking computed from a roster that did not change since the last
\* ranking is that ranking again, whatever time passed in between, and
\* players equal on (score, lower-cased name) keep their roster order.
C5_RankIsDeterministic ==
    [][IsRank => /\ lb # NoRank => lb' = lb
                 /\ TiesInRosterOrder(lb'.rows)]_vars

\* C6: computing the ranking leaves the roster as it was: the order of the
\* players and every player's name, score, progress_target and
\* progress_current.
C6_RankLeavesRoster ==
    [][IsRank => (players' = players /\ st_players' = st_players)]_vars

\* a ranking was computed that is not in roster order, and the roster stands
C6_Witness ==
    /\ lb.state = "ranked" /\ Len(lb.rows) = 2 /\ lb.rows[1].at = 2
    /\ last_op.op \in {"Draw", "get_leaderboard_df"}
    /\ Len(Roster) = 2

\* the roster the claim has a load make of the rows: the rows with a name,
\* in order, the score parsed or 0
ClaimedRoster(rows) ==
    LET named == SelectSeq(rows, LAMBDA row : row.name # None /\ strip(row.name) # <<>>)
    IN  [i \in 1..Len(named) |->
            [name |-> strip(named[i].name),
             points |-> IF named[i].points # None /\ IsNumber(strip(named[i].points))
                        THEN NumberValue(strip(named[i].points)) ELSE 0]]

\* C7: a load of any sequence of records does not abort, keeps no record
\* whose name is empty or whitespace, gives score 0 to a kept record whose
\* score is no number and its parsed score to every other.
C7_LoadKeepsNamedRows ==
    [][\A file \in CSV_FILES :
          (file.exists /\ IsLoad(file)) =>
              /\ pc' # "crashed"
              /\ stripped_names(Roster') = NamesOf(ClaimedRoster(file.rows))
              /\ \A i \in 1..Len(Roster') :
                    Roster'[i].points = ClaimedRoster(file.rows)[i].points]_vars

\* C8: a load whose roster source is missing leaves the roster empty, and
\* the program goes on.
C8_MissingSourceEmptiesRoster ==
    [][IsLoad(NoFile) => (Roster' = <<>> /\ pc' # "crashed")]_vars

\* no player's trimmed name is the trimmed name
MatchesNone(name) ==
    \A i \in 1..Len(st_players) : strip(st_players[i].name) # strip(name)

\* C9: bump_points with a name that matches no player (an empty roster
\* included) raises nothing and leaves every score, the roster order and the
\* sort-freeze deadline as they were: a step of bump_points either leaves
\* all of them alone or is no bump under a name that matches none.
C9_UnknownNameIsNoOp ==
    [][(last_op'.op = "bump_points") =>
          \/ /\ st_players' = st_players
             /\ frozen_for' = frozen_for
             /\ display_order' = display_order
             /\ pc' = pc
          \/ \A name \in BUMP_NAMES, delta \in DELTAS :
                ~(MatchesNone(name) /\ bump_points(name, delta))]_vars

\* bump_points has returned early on a roster that holds players
C9_Witness ==
    /\ last_op.op = "bump_points" /\ last_op.early
    /\ st_players # <<>>


\* a step of update_animation whose factor min(1.0, EASING_SPEED * dt) is 1.0
FullStep(ms) == EASING_SPEED * ms >= MS_PER_SECOND

\* the floating-point spacing at the larger of the two progress values
StepUlp(p) == Ulp(Max(Abs(p.progress_current), Abs(p.progress_target)))

\* the statement as the specification has it: one step moves
\* progress_current to a value between its previous value and
\* progress_target inclusive, so that the distance to the target never grows
\* and its sign never flips, and a step with EASING_SPEED * dt >= 1 lands
\* exactly on progress_target.
C10_StepLandsBetween ==
    [][\A ms \in ANIM_DT_MS : Update(ms) =>
          \A i \in 1..Len(players) :
             LET cur == players[i].progress_current
                 tgt == players[i].progress_target
                 new == players'[i].progress_current
             IN  /\ Min(cur, tgt) <= new /\ new <= Max(cur, tgt)
                 /\ Abs(tgt - new) <= Abs(tgt - cur)
                 /\ (tgt - cur) * (tgt - new) >= 0
                 /\ FullStep(ms) => new = tgt]_vars

\* C10: for every dt >= 0 one step of update_animation never increases the
\* distance |progress_target - progress_current|, moves progress_current to
\* a value between its previous value and progress_target up to one
\* floating-point spacing, and with EASING_SPEED * dt >= 1 lands within one
\* floating-point spacing of progress_target.
C10_StepLandsWithinUlp ==
    [][\A ms \in ANIM_DT_MS : Update(ms) =>
          \A i \in 1..Len(players) :
             LET cur == players[i].progress_current
                 tgt == players[i].progress_target
                 new == players'[i].progress_current
                 u == StepUlp(players[i])
             IN  /\ Min(cur, tgt) - u <= new /\ new <= Max(cur, tgt) + u
                 /\ Abs(tgt - new) <= Abs(tgt - cur)
                 /\ FullStep(ms) => Abs(tgt - new) <= u]_vars

\* a full step has been taken from a value that is not the target and has
\* landed beside the target, one floating-point spacing off
C10_Witness ==
    /\ last_op.op = "Update" /\ FullStep(last_op.ms)
    /\ \E i \in 1..Len(players) :
          /\ players[i].progress_current # players[i].progress_target
          /\ Abs(players[i].progress_target - players[i].progress_current)
                <= StepUlp(players[i])


----------------------------------------------------------------------------
(* The run loop under its scheduling: while the program runs, App.run keeps
   taking frames *)

\* the frame times dt > 0 of the runs that settle: a frame at 60 Hz, a stall
SETTLE_DT_MS == {17, 1000}

\* the roster of the runs that settle: one racer on the track
SETTLE_FILES == { File(<<Row(<<"B">>, <<"6">>)>>) }

SettleNext ==
    \/ \E file \in SETTLE_FILES : AppInit(file)
    \/ \E file \in SETTLE_FILES : EventReload(file)
    \/ EventSpace
    \/ \E b \in 1..Len(inc_buttons) : EventClick(b)
    \/ \E quit \in BOOLEAN : EventsDone(quit)
    \/ \E ms \in SETTLE_DT_MS : Update(ms)
    \/ Draw

\* App.run draws every frame it has updated
SpecSettle == AnimInit /\ [][SettleNext]_vars /\ WF_vars(Draw)

\* a step that is no load, bump or reset, and if it steps the animation
\* does so with frame time ms
QuietStep(ms) ==
    /\ last_op'.op \notin {"AppInit", "EventReload", "EventSpace", "EventClick"}
    /\ last_op'.op = "Update" => last_op'.ms = ms

\* a step of update_animation
AnimationStep == last_op'.op = "Update"

\* every player's progress_current is its progress_target
Settled ==
    \A i \in 1..Len(players) :
        players[i].progress_current = players[i].progress_target

\* every player's progress_current is as near its progress_target as the
\* rounding of a step of frame time ms lets it come: the step
\* (target - current) * factor is at most one floating-point spacing
NearTarget(ms) ==
    \A i \in 1..Len(players) :
        Abs(players[i].progress_target - players[i].progress_current)
              * easing_factor(seconds(ms))
           <= StepUlp(players[i]) * One

C12_ResetZeroesDisplayedOnly ==
    [][(last_op'.op = "EventSpace" /\ EventSpace) =>
          /\ Len(players') = Len(players)
          /\ \A i \in 1..Len(players) :
                players'[i] = [players[i] EXCEPT !.progress_current = 0]
          /\ UNCHANGED <<pc, running, inc_buttons, loads, lb>>]_vars

\* a reset has taken a racer that had moved back to the start, its target
\* still ahead
C12_Witness ==
    /\ last_op.op = "EventSpace" /\ last_op.moved
    /\ \E i \in 1..Len(players) :
          players[i].progress_target > 0 /\ players[i].progress_current = 0


----------------------------------------------------------------------------
(* The layout of rosters of every size up to MaxPlayers *)

\* players.csv with n rows
LAYOUT_FILES ==
    { File([i \in 1..n |-> Row(<<"A">>, <<"4", "0">>)]) : n \in 0..MaxPlayers }

LayoutNext ==
    \/ \E file \in LAYOUT_FILES : AppInit(file)
    \/ EventSpace
    \/ \E quit \in BOOLEAN : EventsDone(quit)
    \/ \E ms \in DT_MS : Update(ms)
    \/ Draw
    \/ \E file \in LAYOUT_FILES : WebInit(file)
    \/ race_track

SpecLayout == Init /\ [][LayoutNext]_vars

\* C13: for every player count, 0 included (which gives the maxima), the
\* lane height a frame draws lies in [40, 90] and the gap in [6, 18] in
\* pygame, the lane height in [54, 90] in the web page, and the leaderboard
\* row height in [40, 76].
C13_GeometryWithinBounds ==
    /\ last_op.op = "Draw" =>
          /\ last_op.lane_h \in min_lane_h..max_lane_h
          /\ last_op.gap \in min_gap..max_gap
          /\ last_op.row_h \in min_row_h..max_row_h
          /\ players = <<>> =>
                /\ last_op.lane_h = max_lane_h
                /\ last_op.gap = max_gap
                /\ last_op.row_h = max_row_h
    /\ last_op.op = "race_track" =>
          /\ last_op.lane_h \in MIN_LANE_H..MAX_LANE_H
          /\ st_players = <<>> => last_op.lane_h = MAX_LANE_H

\* a frame has drawn a roster so long that lanes, gaps and rows are at their
\* minima
C13_Witness ==
    /\ last_op.op = "Draw"
    /\ last_op.lane_h = min_lane_h /\ last_op.gap = min_gap /\ last_op.row_h = min_row_h
    /\ (race_available_height - (Len(players) - 1) * min_gap) \div Len(players) < min_lane_h

\* n lanes of minimum height with minimum gaps fit
LanesCanFit(n) == n * min_lane_h + (n - 1) * min_gap <= race_available_height

\* n rows of minimum height fit
RowsCanFit(n) == n * min_row_h + (n - 1) * spacing <= rows_available_height

\* C14: for every player count n >= 1 for which n lanes of minimum height
\* with minimum gaps fit, the lanes a frame draws fit the available height
\* 570: n * lane_h + (n - 1) * gap <= 570; and so do the leaderboard rows in
\* 600 with their spacing of 8.
C14_GeometryFits ==
    LET n == Len(players)
    IN  (last_op.op = "Draw" /\ n >= 1) =>
           /\ LanesCanFit(n) =>
                 n * last_op.lane_h + (n - 1) * last_op.gap <= race_available_height
           /\ RowsCanFit(n) =>
                 n * last_op.row_h + (n - 1) * spacing <= rows_available_height

\* a frame has drawn lanes shrunk below the maximum that fill the available
\* height to the pixel
C14_Witness ==
    LET n == Len(players)
    IN  /\ last_op.op = "Draw" /\ n >= 1 /\ LanesCanFit(n)
        /\ last_op.lane_h < max_lane_h
        /\ n * last_op.lane_h + (n - 1) * last_op.gap = race_available_height


\* C15: every tick of App.run applies the pending load, bump and reset
\* events, then steps, then ranks and renders, in that order; the step gives
\* every player of the roster as the events left it exactly one step with
\* the tick's dt; and the roster a frame renders has every progress_target
\* computed from the score beside it.
C15_TickOrder ==
    [][(backend = "pygame") =>
          /\ last_op'.op \in {"EventReload", "EventSpace", "EventClick", "EventsDone"} =>
                pc = "events"
          /\ pc = "events" => pc' \in {"events", "update", "crashed"}
          /\ pc = "update" =>
                /\ last_op'.op = "Update" /\ pc' = "draw"
                /\ Len(players') = Len(players)
                /\ \A i \in 1..Len(players) :
                      players'[i] =
                         [players[i] EXCEPT !.progress_current =
                             eased(players[i].progress_current,
                                   players[i].progress_target,
                                   easing_factor(seconds(last_op'.ms)))]
          /\ pc = "draw" =>
                /\ last_op'.op = "Draw" /\ pc' \in {"events", "exited"}
                /\ lb'.state = "ranked"
                /\ players' = players
                /\ \A i \in 1..Len(players) :
                      players[i].progress_target = target_progress(players[i].points)]_vars

\* a frame has rendered two racers, one of them bumped since the load, both
\* stepped on to their targets
C15_Witness ==
    /\ last_op.op = "Draw" /\ Len(players) = 2
    /\ players[1].points # players[2].points
    /\ \A i \in 1..2 :
          /\ players[i].progress_current = players[i].progress_target
          /\ players[i].progress_target # 0


\* rows in score order, highest first
ScoreOrder(rows) ==
    \A k \in 1..(Len(rows) - 1) : rows[k].points >= rows[k + 1].points

\* the step before this one was a bump that changed a score, made from a
\* page that had shown a ranking
AfterBump ==
    \/ last_op.op = "bump_points" /\ ~last_op.early /\ display_order.set
    \/ last_op.op = "EventClick" /\ last_op.live

\* C16: the ranking is computed from the roster as it is: every ranking a
\* pygame frame computes, and the ranking the web page computes next after a
\* bump has changed a score, has the players in score order, highest first,
\* and is no replay of the order from before the bump.
C16_RankFollowsBump ==
    [][(IsRank /\ (backend = "pygame" \/ AfterBump)) =>
          (lb'.state = "ranked" /\ ScoreOrder(lb'.rows))]_vars


\* the identities of the Player objects of a roster
ObjectsOf(ps) == {ps[i].oid : i \in 1..Len(ps)}

\* C17: a load that returns replaces the roster entirely: the roster is then
\* fresh players built from the kept records, in record order, none of the
\* Player objects of the roster before is in it, and every player's
\* progress_current is 0.
C17_LoadReplacesRoster ==
    [][\A file \in CSV_FILES :
          ((AppInit(file) \/ EventReload(file)) /\ pc' # "crashed") =>
              /\ RosterOf(players') = ClaimedRoster(file.rows)
              /\ ObjectsOf(players') \cap ObjectsOf(players) = {}
              /\ \A i \in 1..Len(players') : players'[i].progress_current = 0]_vars


----------------------------------------------------------------------------
(* The programs whose finish line is configured to another value *)

\* the values FINISH_LINE (app.py) and max_pts (main.py) are set to
FINISH_LINES == {0 - 100, 0, FINISH_LINE}

ConfigNext ==
    \/ \E file \in CSV_FILES, m \in FINISH_LINES : AppInitWith(file, m)
    \/ EventSpace
    \/ \E quit \in BOOLEAN : EventsDone(quit)
    \/ \E ms \in DT_MS : Update(ms)
    \/ Draw
    \/ \E file \in CSV_FILES : WebInit(file)
    \/ \E name \in BUMP_NAMES, delta \in DELTAS : bump_points(name, delta)
    \/ \E finish \in FINISH_LINES : race_track_with(finish)

SpecConfig == Init /\ [][ConfigNext]_vars

\* C18: with a finish line configured <= 0, computing the progress gives 0
\* for every player whatever its score and raises no division error, in
\* pygame (set_target_progresses) and in the web page (race_track).
C18_DegenerateFinishLine ==
    [][/\ \A file \in CSV_FILES, m \in FINISH_LINES :
             (m <= 0 /\ last_op'.op = "AppInit" /\ AppInitWith(file, m)
                /\ pc' # "crashed") =>
                 \A i \in 1..Len(players') : players'[i].progress_target = 0
       /\ (last_op'.op = "race_track" /\ last_op'.finish_line <= 0) =>
             /\ ~last_op'.raised
             /\ Len(last_op'.progress) = Len(st_players)
             /\ \A i \in 1..Len(st_players) : last_op'.progress[i] = 0]_vars



\* rows show every player of roster exactly once and nobody else
PermutationOf(rows, roster) ==
    /\ Len(rows) = Len(roster)
    /\ \A i \in 1..Len(roster) : \E k \in 1..Len(rows) : rows[k].at = i
    /\ \A k \in 1..Len(rows) :
          /\ rows[k].at \in 1..Len(roster)
          /\ rows[k].name = strip(roster[rows[k].at].name)
          /\ rows[k].points = roster[rows[k].at].points

\* C19: whatever loads, bumps, live-sort toggles and elapsed time came
\* before, the ranked list a backend computes is a permutation of the
\* current roster: every player of the roster is in it exactly once and
\* nobody else is.
C19_RankIsPermutation ==
    [][IsRank => (lb'.state = "ranked" /\ PermutationOf(lb'.rows, Roster'))]_vars



\* the score of row i after a bump by delta of the rows named like name:
\* row i received the delta if it is named so, and kept its score if not
BumpedScore(before, after, name, delta) ==
    IF strip(before.name) = strip(name)
    THEN after.points \in {before.points + delta, clipped(before.points + delta)}
    ELSE after.points = before.points

\* C20: a bump that matches a player changes the score, and the
\* progress_target derived from it, of exactly the players whose trimmed name
\* is the trimmed name bumped, all of them when several carry the name: the
\* other players' scores, every progress_current, and the length and the
\* order of the roster stay as they were.
C20_BumpChangesNamedOnly ==
    [][/\ \A name \in BUMP_NAMES, delta \in DELTAS :
             (/\ last_op'.op = "bump_points" /\ ~last_op'.early
              /\ bump_points(name, delta)) =>
                 /\ Len(st_players') = Len(st_players)
                 /\ \A i \in 1..Len(st_players) :
                       /\ st_players'[i].name = st_players[i].name
                       /\ BumpedScore(st_players[i], st_players'[i], name, delta)
       /\ \A b \in 1..Len(inc_buttons) :
             (/\ last_op'.op = "EventClick" /\ last_op'.live
              /\ EventClick(b)) =>
                 /\ Len(players') = Len(players)
                 /\ \A i \in 1..Len(players) :
                       /\ players'[i].name = players[i].name
                       /\ players'[i].oid = players[i].oid
                       /\ players'[i].progress_current = players[i].progress_current
                       /\ players'[i].progress_target =
                              target_progress(players'[i].points)
                       /\ BumpedScore(players[i], players'[i],
                                      players[inc_buttons[b].player].name,
                                      inc_buttons[b].delta)]_vars



\* every click target holds a Player object of the roster ps
TargetsOf(buttons, ps) == \A b \in 1..Len(buttons) : IsLive(buttons[b], ps)

\* C21: the +/- click targets a draw records hold the Player objects of the
\* roster at that draw; a click on such a target processed right after a
\* reload, before the next draw, lands on a replaced player and leaves the
\* roster as the reload loaded it.
C21_ClickAfterReloadIsStale ==
    [][/\ (last_op'.op = "Draw" /\ Draw) => TargetsOf(inc_buttons', players')
       /\ \A b \in 1..Len(inc_buttons) :
             (/\ last_op.op = "EventReload" /\ pc = "events"
              /\ last_op'.op = "EventClick"
              /\ EventClick(b)) => players' = players]_vars

====
